---------------------------- MODULE Spec2Model ----------------------------
(***************************************************************************)
(* BLAS/LAPACK dependency resolution of mesonbuild/dependencies/           *)
(* blas_lapack.py: module parsing, symbol verification, the OpenBLAS       *)
(* system probe with its machine-file override, the pkg-config and CMake   *)
(* strategies and the per-family strategy chain.                           *)
(*                                                                         *)
(* A Python str is modelled as a sequence of one-character strings, so     *)
(* that startswith, split, f-string concatenation and Path operations are  *)
(* computed as the code computes them.  A Python list of str is a sequence *)
(* of such sequences.                                                      *)
(***************************************************************************)
EXTENDS Naturals, Sequences, FiniteSets, TLC

VARIABLES
    family,        \* request: name given to dependency()
    modules,       \* request: kwargs['modules'] as a list
    props,         \* env.properties[for_machine].properties (machine file)
    for_machine,   \* request: the machine the dependency is for ('native' kwarg)
    host,          \* the machine the resolution runs on
    registry,      \* the module-level dict packages
    class_attrs,   \* the data attributes set on the dependency classes
    pc,            \* position of the resolution
    idx,           \* index of the running strategy in the family's chain
    interface,     \* self.interface of the strategy object under construction
    needs_cblas,   \* self.needs_cblas
    needs_lapack,  \* self.needs_lapack
    needs_lapacke, \* self.needs_lapacke
    is_found,      \* self.is_found
    link_args,     \* self.link_args
    compile_args,  \* self.compile_args
    version,       \* self.version
    lib_dirs,      \* detect(): argument lib_dirs
    inc_dirs,      \* detect(): argument inc_dirs
    libnames,      \* detect(): local libnames
    li,            \* detect(): index of the loop over libnames
    ret,           \* detect(): the caller to return to
    link_arg,      \* detect(): local link_arg of the running iteration
    calls,         \* history: the invocations of external lookups, in order
    oracle,        \* the environment's answers given so far
    tried,         \* history: the candidates constructed, with what each reported
    error,         \* the exception that ended the resolution, or "none"
    result,        \* what the resolution returned
    sched          \* two resolutions on one environment: which one runs, and
                   \* the state of the one that does not

vars == <<family, modules, props, for_machine, host, registry, class_attrs, pc, idx, interface, needs_cblas, needs_lapack,
          needs_lapacke, is_found, link_args, compile_args, version, lib_dirs,
          inc_dirs, libnames, li, ret, link_arg, calls, oracle, tried, error, result, sched>>

---------------------------------------------------------------------------
(* Bounds *)

\* longest modules list of a request
MaxModules == 3
\* most times the caller switches from one running resolution to the other
MaxSwitches == 2

---------------------------------------------------------------------------
(* String literals *)

s_interface == <<"i","n","t","e","r","f","a","c","e">>
s_lp64 == <<"l","p","6","4">>
s_ilp64 == <<"i","l","p","6","4">>
tok_lp64 == <<"i","n","t","e","r","f","a","c","e",":"," ","l","p","6","4">>
tok_ilp64 == <<"i","n","t","e","r","f","a","c","e",":"," ","i","l","p","6","4">>
s_cblas == <<"c","b","l","a","s">>
s_lapack == <<"l","a","p","a","c","k">>
s_lapacke == <<"l","a","p","a","c","k","e">>
tok_nospace == <<"i","n","t","e","r","f","a","c","e",":","l","p","6","4">>
tok_blas == <<"b","l","a","s">>
s_openblas == <<"o","p","e","n","b","l","a","s">>
s_openblas64 == <<"o","p","e","n","b","l","a","s","6","4">>
s_openblas_ilp64 == <<"o","p","e","n","b","l","a","s","_","i","l","p","6","4">>
s_OpenBLAS == <<"O","p","e","n","B","L","A","S">>
s_dgemm == <<"d","g","e","m","m","_">>
s_cblas_dgemm == <<"c","b","l","a","s","_","d","g","e","m","m">>
s_zungqr == <<"z","u","n","g","q","r","_">>
s_LAPACKE_zungqr == <<"L","A","P","A","C","K","E","_","z","u","n","g","q","r">>
s_64 == <<"6","4","_">>
s_dashI == <<"-","I">>
s_dashL == <<"-","L">>
s_dashl == <<"-","l">>
s_abs_inc == <<"/","o","/","i","n","c">>
s_abs_lib == <<"/","o","/","l","i","b">>
s_rel_inc == <<"i","n","c">>
s_rel_lib == <<"l","i","b">>
s_slash_lib == <<"/","l","i","b">>
s_dot_so == <<".","s","o">>
s_usr_lib == <<"/","u","s","r","/","l","i","b">>
def_release == <<"O","p","e","n","B","L","A","S"," ","0",".","3",".","2","1"," "," ">>
def_garbage == <<"u","n","k","n","o","w","n">>
def_arabic_indic == <<"U+0663",".","U+0664">>
s_0_3_21 == <<"0",".","3",".","2","1">>
s_blas == <<"b","l","a","s">>
s_framework == <<"-","f","r","a","m","e","w","o","r","k">>
s_Accelerate == <<"A","c","c","e","l","e","r","a","t","e">>
s_new_lapack == <<"-","D","A","C","C","E","L","E","R","A","T","E","_","N","E","W","_","L","A","P","A","C","K">>
s_lapack_ilp64 == <<"-","D","A","C","C","E","L","E","R","A","T","E","_","L","A","P","A","C","K","_","I","L","P","6","4">>

\* Python's None where a str is expected: no str equals it
NoneVal == <<"<None>">>

\* truth value of a str-or-None (bool(x) in Python)
Truthy(x) == x # NoneVal /\ x # <<>>

\* a Python list where a str is expected (an array of a machine file): the
\* mark followed by the characters of its items
ListOf(x) == <<"<list>">> \o x

\* isinstance(x, str)
isinstance_str(x) == x = <<>> \/ x[1] \notin {"<None>", "<list>"}

---------------------------------------------------------------------------
(* str operations *)

\* s.startswith(p)
StartsWith(s, p) == Len(s) >= Len(p) /\ SubSeq(s, 1, Len(p)) = p

\* s.split(c) for a one-character separator c
RECURSIVE Split(_, _)
Split(s, c) ==
    IF \A i \in 1..Len(s) : s[i] # c
    THEN <<s>>
    ELSE LET i == CHOOSE k \in 1..Len(s) : s[k] = c /\ \A j \in 1..(k-1) : s[j] # c
         IN  <<SubSeq(s, 1, i-1)>> \o Split(SubSeq(s, i+1, Len(s)), c)

\* x in xs, for a list xs
InList(x, xs) == \E i \in 1..Len(xs) : xs[i] = x

\* [f(x) for x in xs]
RECURSIVE MapSeq(_, _)
MapSeq(F(_), xs) == IF xs = <<>> THEN <<>> ELSE <<F(Head(xs))>> \o MapSeq(F, Tail(xs))

---------------------------------------------------------------------------
(* BLASLAPACKMixin.parse_modules *)

valid_modules == <<tok_lp64, tok_ilp64, s_cblas, s_lapack, s_lapacke>>

\* the first loop: every module must be in valid_modules
UnknownModules(mods) == \E i \in 1..Len(mods) : ~InList(mods[i], valid_modules)

\* interface = [s for s in modules if s.startswith('interface')]
InterfaceTokens(mods) == SelectSeq(mods, LAMBDA s : StartsWith(s, s_interface))

\* parse_modules without the test of len(interface)
ParseError_no_interface_count(mods) ==
    IF UnknownModules(mods) THEN "MesonException: Unknown modules argument" ELSE "none"

\* the exception parse_modules raises on this list, or "none"
ParseError(mods) ==
    IF UnknownModules(mods) THEN "MesonException: Unknown modules argument"
    ELSE IF Len(InterfaceTokens(mods)) > 1
         THEN "MesonException: Only one interface must be specified"
         ELSE "none"

\* self.interface after a parse that did not raise
ParsedInterface(mods) ==
    IF InterfaceTokens(mods) # <<>>
    THEN Split(InterfaceTokens(mods)[1], " ")[2]
    ELSE <<>>

\* the outcome of parse_modules: the exception raised, and the attributes set
parse_modules(mods) ==
    [exc           |-> ParseError(mods),
     interface     |-> IF UnknownModules(mods) THEN NoneVal
                       ELSE IF Len(InterfaceTokens(mods)) > 1 THEN <<>>
                       ELSE ParsedInterface(mods),
     needs_cblas   |-> InList(s_cblas, mods),
     needs_lapack  |-> InList(s_lapack, mods),
     needs_lapacke |-> InList(s_lapacke, mods)]

---------------------------------------------------------------------------
(* BLASLAPACKMixin.check_symbols *)

\* the symbols list without the LAPACKE symbol
Symbols_no_lapacke(cblas, lapack, lapacke) ==
    <<s_dgemm>>
    \o (IF cblas THEN <<s_cblas_dgemm>> ELSE <<>>)
    \o (IF lapack THEN <<s_zungqr>> ELSE <<>>)

\* the symbols list built at the top of check_symbols
Symbols(cblas, lapack, lapacke) ==
    <<s_dgemm>>
    \o (IF cblas THEN <<s_cblas_dgemm>> ELSE <<>>)
    \o (IF lapack THEN <<s_zungqr>> ELSE <<>>)
    \o (IF lapacke THEN <<s_LAPACKE_zungqr>> ELSE <<>>)

\* suffix = '' if self.interface == 'lp64' else '64_'
Suffix(iface) == IF iface = s_lp64 THEN <<>> ELSE s_64

\* the names declared and called by the generated program, in order
ProgramSymbols(iface, cblas, lapack, lapacke) ==
    LET suffix == Suffix(iface)
        Name(symbol) == symbol \o suffix
    IN  MapSeq(Name, Symbols(cblas, lapack, lapacke))

\* check_symbols hands this program and these extra arguments to
\* clib_compiler.links and returns its verdict
check_symbols(iface, cblas, lapack, lapacke, args) ==
    [code |-> ProgramSymbols(iface, cblas, lapack, lapacke), extra_args |-> args]

---------------------------------------------------------------------------
(* pathlib *)

\* a test that the path is not empty in place of is_absolute
is_absolute_nonempty(p) == p # <<>>

\* Path(p).is_absolute() on a POSIX host
is_absolute(p) == StartsWith(p, <<"/">>)

\* the root pathlib gives a POSIX path: '//' for exactly two leading
\* slashes, '/' for any other number of them, '' for none
Root(p) ==
    IF StartsWith(p, <<"/", "/">>) /\ ~StartsWith(p, <<"/", "/", "/">>) THEN <<"/", "/">>
    ELSE IF StartsWith(p, <<"/">>) THEN <<"/">>
    ELSE <<>>

\* the components pathlib keeps: empty ones and '.' are dropped
Components(p) == SelectSeq(Split(p, "/"), LAMBDA c : c # <<>> /\ c # <<".">>)

\* sep.join(parts)
RECURSIVE Join(_, _)
Join(parts, sep) ==
    IF parts = <<>> THEN <<>>
    ELSE IF Len(parts) = 1 THEN parts[1]
    ELSE parts[1] \o sep \o Join(Tail(parts), sep)

\* str() of the path with this root and these components
PathStr(root, parts) ==
    IF root = <<>> /\ parts = <<>> THEN <<".">> ELSE root \o Join(parts, <<"/">>)

\* str(Path(p).parent)
parent(p) ==
    LET parts == Components(p)
    IN  PathStr(Root(p), IF parts = <<>> THEN parts ELSE SubSeq(parts, 1, Len(parts) - 1))

---------------------------------------------------------------------------
(* OpenBLASSystemDependency.detect_openblas_version: re.search(r'\d+(?:\.\d+)+', v) *)

\* a character outside ASCII is written "U+" and its code point; these are
\* the decimal digits (category Nd) outside ASCII, Unicode 14.0
UnicodeDigits ==
    {"U+0660", "U+0661", "U+0662", "U+0663", "U+0664", "U+0665", "U+0666", "U+0667", "U+0668", "U+0669",
     "U+06F0", "U+06F1", "U+06F2", "U+06F3", "U+06F4", "U+06F5", "U+06F6", "U+06F7", "U+06F8", "U+06F9",
     "U+07C0", "U+07C1", "U+07C2", "U+07C3", "U+07C4", "U+07C5", "U+07C6", "U+07C7", "U+07C8", "U+07C9",
     "U+0966", "U+0967", "U+0968", "U+0969", "U+096A", "U+096B", "U+096C", "U+096D", "U+096E", "U+096F",
     "U+09E6", "U+09E7", "U+09E8", "U+09E9", "U+09EA", "U+09EB", "U+09EC", "U+09ED", "U+09EE", "U+09EF",
     "U+0A66", "U+0A67", "U+0A68", "U+0A69", "U+0A6A", "U+0A6B", "U+0A6C", "U+0A6D", "U+0A6E", "U+0A6F",
     "U+0AE6", "U+0AE7", "U+0AE8", "U+0AE9", "U+0AEA", "U+0AEB", "U+0AEC", "U+0AED", "U+0AEE", "U+0AEF",
     "U+0B66", "U+0B67", "U+0B68", "U+0B69", "U+0B6A", "U+0B6B", "U+0B6C", "U+0B6D", "U+0B6E", "U+0B6F",
     "U+0BE6", "U+0BE7", "U+0BE8", "U+0BE9", "U+0BEA", "U+0BEB", "U+0BEC", "U+0BED", "U+0BEE", "U+0BEF",
     "U+0C66", "U+0C67", "U+0C68", "U+0C69", "U+0C6A", "U+0C6B", "U+0C6C", "U+0C6D", "U+0C6E", "U+0C6F",
     "U+0CE6", "U+0CE7", "U+0CE8", "U+0CE9", "U+0CEA", "U+0CEB", "U+0CEC", "U+0CED", "U+0CEE", "U+0CEF",
     "U+0D66", "U+0D67", "U+0D68", "U+0D69", "U+0D6A", "U+0D6B", "U+0D6C", "U+0D6D", "U+0D6E", "U+0D6F",
     "U+0DE6", "U+0DE7", "U+0DE8", "U+0DE9", "U+0DEA", "U+0DEB", "U+0DEC", "U+0DED", "U+0DEE", "U+0DEF",
     "U+0E50", "U+0E51", "U+0E52", "U+0E53", "U+0E54", "U+0E55", "U+0E56", "U+0E57", "U+0E58", "U+0E59",
     "U+0ED0", "U+0ED1", "U+0ED2", "U+0ED3", "U+0ED4", "U+0ED5", "U+0ED6", "U+0ED7", "U+0ED8", "U+0ED9",
     "U+0F20", "U+0F21", "U+0F22", "U+0F23", "U+0F24", "U+0F25", "U+0F26", "U+0F27", "U+0F28", "U+0F29",
     "U+1040", "U+1041", "U+1042", "U+1043", "U+1044", "U+1045", "U+1046", "U+1047", "U+1048", "U+1049",
     "U+1090", "U+1091", "U+1092", "U+1093", "U+1094", "U+1095", "U+1096", "U+1097", "U+1098", "U+1099",
     "U+17E0", "U+17E1", "U+17E2", "U+17E3", "U+17E4", "U+17E5", "U+17E6", "U+17E7", "U+17E8", "U+17E9",
     "U+1810", "U+1811", "U+1812", "U+1813", "U+1814", "U+1815", "U+1816", "U+1817", "U+1818", "U+1819",
     "U+1946", "U+1947", "U+1948", "U+1949", "U+194A", "U+194B", "U+194C", "U+194D", "U+194E", "U+194F",
     "U+19D0", "U+19D1", "U+19D2", "U+19D3", "U+19D4", "U+19D5", "U+19D6", "U+19D7", "U+19D8", "U+19D9",
     "U+1A80", "U+1A81", "U+1A82", "U+1A83", "U+1A84", "U+1A85", "U+1A86", "U+1A87", "U+1A88", "U+1A89",
     "U+1A90", "U+1A91", "U+1A92", "U+1A93", "U+1A94", "U+1A95", "U+1A96", "U+1A97", "U+1A98", "U+1A99",
     "U+1B50", "U+1B51", "U+1B52", "U+1B53", "U+1B54", "U+1B55", "U+1B56", "U+1B57", "U+1B58", "U+1B59",
     "U+1BB0", "U+1BB1", "U+1BB2", "U+1BB3", "U+1BB4", "U+1BB5", "U+1BB6", "U+1BB7", "U+1BB8", "U+1BB9",
     "U+1C40", "U+1C41", "U+1C42", "U+1C43", "U+1C44", "U+1C45", "U+1C46", "U+1C47", "U+1C48", "U+1C49",
     "U+1C50", "U+1C51", "U+1C52", "U+1C53", "U+1C54", "U+1C55", "U+1C56", "U+1C57", "U+1C58", "U+1C59",
     "U+A620", "U+A621", "U+A622", "U+A623", "U+A624", "U+A625", "U+A626", "U+A627", "U+A628", "U+A629",
     "U+A8D0", "U+A8D1", "U+A8D2", "U+A8D3", "U+A8D4", "U+A8D5", "U+A8D6", "U+A8D7", "U+A8D8", "U+A8D9",
     "U+A900", "U+A901", "U+A902", "U+A903", "U+A904", "U+A905", "U+A906", "U+A907", "U+A908", "U+A909",
     "U+A9D0", "U+A9D1", "U+A9D2", "U+A9D3", "U+A9D4", "U+A9D5", "U+A9D6", "U+A9D7", "U+A9D8", "U+A9D9",
     "U+A9F0", "U+A9F1", "U+A9F2", "U+A9F3", "U+A9F4", "U+A9F5", "U+A9F6", "U+A9F7", "U+A9F8", "U+A9F9",
     "U+AA50", "U+AA51", "U+AA52", "U+AA53", "U+AA54", "U+AA55", "U+AA56", "U+AA57", "U+AA58", "U+AA59",
     "U+ABF0", "U+ABF1", "U+ABF2", "U+ABF3", "U+ABF4", "U+ABF5", "U+ABF6", "U+ABF7", "U+ABF8", "U+ABF9",
     "U+FF10", "U+FF11", "U+FF12", "U+FF13", "U+FF14", "U+FF15", "U+FF16", "U+FF17", "U+FF18", "U+FF19",
     "U+104A0", "U+104A1", "U+104A2", "U+104A3", "U+104A4", "U+104A5", "U+104A6", "U+104A7", "U+104A8", "U+104A9",
     "U+10D30", "U+10D31", "U+10D32", "U+10D33", "U+10D34", "U+10D35", "U+10D36", "U+10D37", "U+10D38", "U+10D39",
     "U+11066", "U+11067", "U+11068", "U+11069", "U+1106A", "U+1106B", "U+1106C", "U+1106D", "U+1106E", "U+1106F",
     "U+110F0", "U+110F1", "U+110F2", "U+110F3", "U+110F4", "U+110F5", "U+110F6", "U+110F7", "U+110F8", "U+110F9",
     "U+11136", "U+11137", "U+11138", "U+11139", "U+1113A", "U+1113B", "U+1113C", "U+1113D", "U+1113E", "U+1113F",
     "U+111D0", "U+111D1", "U+111D2", "U+111D3", "U+111D4", "U+111D5", "U+111D6", "U+111D7", "U+111D8", "U+111D9",
     "U+112F0", "U+112F1", "U+112F2", "U+112F3", "U+112F4", "U+112F5", "U+112F6", "U+112F7", "U+112F8", "U+112F9",
     "U+11450", "U+11451", "U+11452", "U+11453", "U+11454", "U+11455", "U+11456", "U+11457", "U+11458", "U+11459",
     "U+114D0", "U+114D1", "U+114D2", "U+114D3", "U+114D4", "U+114D5", "U+114D6", "U+114D7", "U+114D8", "U+114D9",
     "U+11650", "U+11651", "U+11652", "U+11653", "U+11654", "U+11655", "U+11656", "U+11657", "U+11658", "U+11659",
     "U+116C0", "U+116C1", "U+116C2", "U+116C3", "U+116C4", "U+116C5", "U+116C6", "U+116C7", "U+116C8", "U+116C9",
     "U+11730", "U+11731", "U+11732", "U+11733", "U+11734", "U+11735", "U+11736", "U+11737", "U+11738", "U+11739",
     "U+118E0", "U+118E1", "U+118E2", "U+118E3", "U+118E4", "U+118E5", "U+118E6", "U+118E7", "U+118E8", "U+118E9",
     "U+11950", "U+11951", "U+11952", "U+11953", "U+11954", "U+11955", "U+11956", "U+11957", "U+11958", "U+11959",
     "U+11C50", "U+11C51", "U+11C52", "U+11C53", "U+11C54", "U+11C55", "U+11C56", "U+11C57", "U+11C58", "U+11C59",
     "U+11D50", "U+11D51", "U+11D52", "U+11D53", "U+11D54", "U+11D55", "U+11D56", "U+11D57", "U+11D58", "U+11D59",
     "U+11DA0", "U+11DA1", "U+11DA2", "U+11DA3", "U+11DA4", "U+11DA5", "U+11DA6", "U+11DA7", "U+11DA8", "U+11DA9",
     "U+16A60", "U+16A61", "U+16A62", "U+16A63", "U+16A64", "U+16A65", "U+16A66", "U+16A67", "U+16A68", "U+16A69",
     "U+16AC0", "U+16AC1", "U+16AC2", "U+16AC3", "U+16AC4", "U+16AC5", "U+16AC6", "U+16AC7", "U+16AC8", "U+16AC9",
     "U+16B50", "U+16B51", "U+16B52", "U+16B53", "U+16B54", "U+16B55", "U+16B56", "U+16B57", "U+16B58", "U+16B59",
     "U+1D7CE", "U+1D7CF", "U+1D7D0", "U+1D7D1", "U+1D7D2", "U+1D7D3", "U+1D7D4", "U+1D7D5", "U+1D7D6", "U+1D7D7",
     "U+1D7D8", "U+1D7D9", "U+1D7DA", "U+1D7DB", "U+1D7DC", "U+1D7DD", "U+1D7DE", "U+1D7DF", "U+1D7E0", "U+1D7E1",
     "U+1D7E2", "U+1D7E3", "U+1D7E4", "U+1D7E5", "U+1D7E6", "U+1D7E7", "U+1D7E8", "U+1D7E9", "U+1D7EA", "U+1D7EB",
     "U+1D7EC", "U+1D7ED", "U+1D7EE", "U+1D7EF", "U+1D7F0", "U+1D7F1", "U+1D7F2", "U+1D7F3", "U+1D7F4", "U+1D7F5",
     "U+1D7F6", "U+1D7F7", "U+1D7F8", "U+1D7F9", "U+1D7FA", "U+1D7FB", "U+1D7FC", "U+1D7FD", "U+1D7FE", "U+1D7FF",
     "U+1E140", "U+1E141", "U+1E142", "U+1E143", "U+1E144", "U+1E145", "U+1E146", "U+1E147", "U+1E148", "U+1E149",
     "U+1E2F0", "U+1E2F1", "U+1E2F2", "U+1E2F3", "U+1E2F4", "U+1E2F5", "U+1E2F6", "U+1E2F7", "U+1E2F8", "U+1E2F9",
     "U+1E950", "U+1E951", "U+1E952", "U+1E953", "U+1E954", "U+1E955", "U+1E956", "U+1E957", "U+1E958", "U+1E959",
     "U+1FBF0", "U+1FBF1", "U+1FBF2", "U+1FBF3", "U+1FBF4", "U+1FBF5", "U+1FBF6", "U+1FBF7", "U+1FBF8", "U+1FBF9"}

\* \d of a str pattern: any Unicode decimal digit
IsDigit(c) == c \in {"0","1","2","3","4","5","6","7","8","9"} \cup UnicodeDigits

\* the first index at or after i that holds no digit (\d+ is greedy)
RECURSIVE DigitsEnd(_, _)
DigitsEnd(s, i) == IF i <= Len(s) /\ IsDigit(s[i]) THEN DigitsEnd(s, i + 1) ELSE i

\* the index after the last (?:\.\d+) group starting at j
RECURSIVE GroupsEnd(_, _)
GroupsEnd(s, j) ==
    IF j + 1 <= Len(s) /\ s[j] = "." /\ IsDigit(s[j + 1])
    THEN GroupsEnd(s, DigitsEnd(s, j + 1))
    ELSE j

\* the pattern matches at i
MatchesAt(s, i) ==
    /\ i <= Len(s)
    /\ IsDigit(s[i])
    /\ GroupsEnd(s, DigitsEnd(s, i)) > DigitsEnd(s, i)

\* m.group(0) of the leftmost match, or None
detect_openblas_version(v) ==
    IF \E i \in 1..Len(v) : MatchesAt(v, i)
    THEN LET i == CHOOSE k \in 1..Len(v) : MatchesAt(v, k) /\ \A j \in 1..(k-1) : ~MatchesAt(v, j)
         IN  SubSeq(v, i, GroupsEnd(v, DigitsEnd(v, i)) - 1)
    ELSE NoneVal

---------------------------------------------------------------------------
(* The environment: compiler checks, pkg-config and CMake lookups.  An     *)
(* answer is chosen when a question is first asked and kept afterwards.    *)

\* each machine has its own compiler, pkg-config and CMake: a question is
\* a question to those of the request's machine
Asked(q) == <<for_machine, q>>

Known(f, q) == \E p \in oracle[f] : p[1] = Asked(q)

\* a is an answer the environment can give to question q of kind f
Reply(f, q, a) == Known(f, q) => <<Asked(q), a>> \in oracle[f]

Learn(o, f, q, a) == [o EXCEPT ![f] = @ \cup {<<Asked(q), a>>}]

Call(f, q, a) == [fn |-> f, q |-> q, r |-> a]

\* clib_compiler.find_library(libname, env, dirs): None (here the empty
\* list, equally false) or the arguments that link the library
FindLibraryAnswers(libname, dirs) ==
    IF dirs = <<>>
    THEN {<<>>, <<s_dashl \o libname>>}
    ELSE {<<>>,
          <<dirs[1] \o s_slash_lib \o libname \o s_dot_so>>,
          <<s_usr_lib \o s_slash_lib \o libname \o s_dot_so>>}

\* clib_compiler.get_define('OPENBLAS_VERSION', ...)
DefineValues == {def_release, def_garbage, def_arabic_indic, <<>>}

\* PkgConfigDependency.__init__(name, ...): found or not, with the flags of name.pc
PkgConfigAnswers(name) ==
    {[found |-> FALSE, compile_args |-> <<>>, link_args |-> <<>>, version |-> NoneVal],
     [found |-> TRUE, compile_args |-> <<>>, link_args |-> <<s_dashl \o name>>,
      version |-> s_0_3_21]}

\* CMakeDependency.__init__(name, ...): found or not, with the flags of the package
CMakeAnswers(name) ==
    {[found |-> FALSE, compile_args |-> <<>>, link_args |-> <<>>, version |-> NoneVal],
     [found |-> TRUE, compile_args |-> <<>>,
      link_args |-> <<s_usr_lib \o s_slash_lib \o s_openblas \o s_dot_so>>,
      version |-> s_0_3_21]}

---------------------------------------------------------------------------
(* Requests and machine files *)

Families == {"openblas", "netlib-blas", "accelerate"}

\* the hosts: os.name as Python gives it ('posix' on Linux and on macOS,
\* 'nt' on Windows), the platform, the version xcrun reports for the macOS
\* SDK, and whether the Accelerate framework and its header are installed
linux == [os_name |-> "posix", platform |-> "linux", sdk |-> <<0, 0>>, accelerate |-> FALSE]
Hosts ==
    {linux,
     [os_name |-> "nt", platform |-> "win32", sdk |-> <<0, 0>>, accelerate |-> FALSE],
     [os_name |-> "posix", platform |-> "darwin", sdk |-> <<12, 3>>, accelerate |-> TRUE],
     [os_name |-> "posix", platform |-> "darwin", sdk |-> <<13, 3>>, accelerate |-> TRUE],
     [os_name |-> "posix", platform |-> "darwin", sdk |-> <<14, 0>>, accelerate |-> TRUE]}

\* module tokens a request may hold: the five of valid_modules, the
\* interface token written without its space, and an unknown name
Tokens == {tok_lp64, tok_ilp64, s_cblas, s_lapack, s_lapacke, tok_nospace, tok_blas}

SeqsUpTo(S, n) == UNION {[1..k -> S] : k \in 0..n}

k_includedir == "openblas_includedir"
k_librarydir == "openblas_librarydir"

\* values a machine file can give to each key
PropValues(k) ==
    IF k = k_includedir
    THEN {<<>>, s_rel_inc, s_abs_inc, ListOf(s_abs_inc)}
    ELSE {<<>>, s_rel_lib, s_abs_lib, ListOf(s_abs_lib)}

\* the property mappings: each key absent, or present with a string (empty,
\* relative or absolute) or with an array
PropMappings ==
    {p \in UNION {[K -> PropValues(k_includedir) \cup PropValues(k_librarydir)] :
                     K \in SUBSET {k_includedir, k_librarydir}} :
        \A k \in DOMAIN p : p[k] \in PropValues(k)}

\* props.get(k)
Get(p, k) == IF k \in DOMAIN p THEN p[k] ELSE NoneVal

---------------------------------------------------------------------------
(* The registered families: packages[...] = DependencyFactory(...) *)

\* the openblas family with pkg-config ahead of the system probe
openblas_factory_pkgconfig_first ==
    [methods |-> <<"pkgconfig", "system", "cmake">>,
     system |-> "OpenBLASSystemDependency",
     pkgconfig |-> "OpenBLASPkgConfigDependency",
     cmake |-> "OpenBLASCMakeDependency"]

openblas_factory ==
    [methods |-> <<"system", "pkgconfig", "cmake">>,
     system |-> "OpenBLASSystemDependency",
     pkgconfig |-> "OpenBLASPkgConfigDependency",
     cmake |-> "OpenBLASCMakeDependency"]

netlib_factory ==
    [methods |-> <<"pkgconfig">>,
     pkgconfig |-> "NetlibPkgConfigDependency"]

accelerate_factory ==
    [methods |-> <<"system">>,
     system |-> "AccelerateSystemDependency"]

packages(name) ==
    IF name = "openblas" THEN openblas_factory
    ELSE IF name = "netlib-blas" THEN netlib_factory
    ELSE accelerate_factory

\* the dict once the module is imported
Imported == [name \in Families |-> packages(name)]

\* the classes of the module define methods only: no data attribute
NoClassAttrs == [name \in {} |-> NoneVal]

---------------------------------------------------------------------------
(* State *)

NoResult == [status |-> "pending", found |-> FALSE, method |-> "none",
             compile_args |-> <<>>, link_args |-> <<>>, version |-> NoneVal]

\* a resolution that has not started
Started(f, m, p, fm, h) ==
    [family |-> f, modules |-> m, props |-> p, for_machine |-> fm, host |-> h,
     pc |-> "lookup", idx |-> 0,
     interface |-> NoneVal, needs_cblas |-> FALSE, needs_lapack |-> FALSE,
     needs_lapacke |-> FALSE, is_found |-> FALSE, link_args |-> <<>>,
     compile_args |-> <<>>, version |-> NoneVal, lib_dirs |-> <<>>, inc_dirs |-> <<>>,
     libnames |-> <<>>, li |-> 0, ret |-> "none", link_arg |-> <<>>, calls |-> <<>>,
     tried |-> <<>>,
     error |-> "none", result |-> NoResult]

NoOutcome == [result |-> NoResult, error |-> "none", tried |-> <<>>]

\* a single resolution: nothing else runs
Idle ==
    [cur |-> 1, live |-> {}, switches |-> 0, replay |-> FALSE, mid |-> FALSE,
     other |-> Started("openblas", <<>>, <<>>, "host", linux),
     start |-> Started("openblas", <<>>, <<>>, "host", linux),
     second |-> Started("openblas", <<>>, <<>>, "host", linux),
     first |-> NoOutcome]

Init ==
    /\ family \in Families
    /\ modules \in SeqsUpTo(Tokens, MaxModules)
    /\ props \in PropMappings
    /\ for_machine = "host"
    /\ host \in IF family = "accelerate" THEN Hosts ELSE {linux}
    /\ registry = Imported
    /\ class_attrs = NoClassAttrs
    /\ pc = "lookup"
    /\ idx = 0
    /\ interface = NoneVal
    /\ needs_cblas = FALSE
    /\ needs_lapack = FALSE
    /\ needs_lapacke = FALSE
    /\ is_found = FALSE
    /\ link_args = <<>>
    /\ compile_args = <<>>
    /\ version = NoneVal
    /\ lib_dirs = <<>>
    /\ inc_dirs = <<>>
    /\ libnames = <<>>
    /\ li = 0
    /\ ret = "none"
    /\ link_arg = <<>>
    /\ calls = <<>>
    /\ oracle = [find_library |-> {}, has_header |-> {}, links |-> {},
                 get_define |-> {}, pkgconfig |-> {}, cmake |-> {}]
    /\ tried = <<>>
    /\ error = "none"
    /\ result = NoResult
    /\ sched = Idle

request == <<family, modules, props, for_machine, host, registry>>
mixin == <<interface, needs_cblas, needs_lapack, needs_lapacke, class_attrs>>
dependency == <<is_found, link_args, compile_args, version>>
frame == <<lib_dirs, inc_dirs, libnames, li, ret, link_arg>>
environment == <<calls, oracle>>

\* what a constructed candidate reports to the chain
Report(method) ==
    [method |-> method, found |-> is_found, compile_args |-> compile_args,
     link_args |-> link_args, version |-> version]

\* an exception leaves the constructor and the lookup
Raise(e) ==
    /\ pc' = "done"
    /\ error' = e
    /\ result' = [NoResult EXCEPT !.status = "raised"]

\* Dependency.__init__: a fresh dependency object
FreshDependency ==
    /\ is_found' = FALSE
    /\ link_args' = <<>>
    /\ compile_args' = <<>>
    /\ version' = NoneVal

\* parse_modules assigning its four attributes on the class of the object
\* in place of the object
ParseInto_on_class(p) ==
    /\ class_attrs' = IF p.exc = "none"
                      THEN [interface |-> p.interface, needs_cblas |-> p.needs_cblas,
                            needs_lapack |-> p.needs_lapack,
                            needs_lapacke |-> p.needs_lapacke]
                      ELSE class_attrs
    /\ UNCHANGED <<interface, needs_cblas, needs_lapack, needs_lapacke>>

\* self.parse_modules(kwargs), the attributes it assigns (on self) before it
\* returns or raises
ParseInto(p) ==
    /\ interface' = p.interface
    /\ IF p.exc = "none"
       THEN /\ needs_cblas' = p.needs_cblas
            /\ needs_lapack' = p.needs_lapack
            /\ needs_lapacke' = p.needs_lapacke
       ELSE UNCHANGED <<needs_cblas, needs_lapack, needs_lapacke>>
    /\ UNCHANGED class_attrs

\* self.<name> for an attribute of parse_modules: the object's own value own
\* once parse_modules has assigned it, else the attribute of the class
getattr(name, own) == IF interface # NoneVal THEN own ELSE class_attrs[name]

---------------------------------------------------------------------------
(* OpenBLASSystemDependency *)

\* __init__ up to the machine-file test: super().__init__, parse_modules,
\* any(x in props for x in [...])
OpenBLASSystemDependency_init ==
    /\ pc = "OpenBLASSystemDependency"
    /\ FreshDependency
    /\ LET p == parse_modules(modules)
       IN  /\ ParseInto(p)
           /\ IF p.exc # "none"
              THEN Raise(p.exc)
              ELSE /\ pc' = IF k_includedir \in DOMAIN props \/ k_librarydir \in DOMAIN props
                            THEN "detect_openblas_machine_file"
                            ELSE "standard_directories"
                   /\ UNCHANGED <<error, result>>
    /\ UNCHANGED <<request, sched, idx, frame, environment, tried>>

\* detect_openblas_machine_file(props) up to its call of detect
detect_openblas_machine_file ==
    /\ pc = "detect_openblas_machine_file"
    /\ LET incdir == Get(props, k_includedir)
           libdir == Get(props, k_librarydir)
       IN  IF ~(incdir = NoneVal \/ isinstance_str(incdir))
              \/ ~(libdir = NoneVal \/ isinstance_str(libdir))
           THEN /\ Raise("AssertionError")
                /\ UNCHANGED <<is_found, frame>>
           ELSE IF Truthy(incdir) /\ Truthy(libdir)
           THEN /\ is_found' = TRUE
                /\ IF ~is_absolute(incdir) \/ ~is_absolute(libdir)
                   THEN /\ Raise("MesonException: paths in machine file must be absolute")
                        /\ UNCHANGED frame
                   ELSE /\ pc' = "detect"
                        /\ lib_dirs' = <<libdir>>
                        /\ inc_dirs' = <<incdir>>
                        /\ ret' = "detect_openblas_machine_file"
                        /\ UNCHANGED <<libnames, li, link_arg, error, result>>
           ELSE /\ IF Truthy(incdir) \/ Truthy(libdir)
                   THEN Raise("MesonException: both includedir and librarydir have to be set")
                   ELSE Raise("MesonBugException: should not be possible to reach this else clause")
                /\ UNCHANGED <<is_found, frame>>
    /\ UNCHANGED <<request, sched, idx, mixin, link_args, compile_args, version, environment, tried>>

\* the search of the standard directories without its test of is_found
standard_directories_unguarded ==
    /\ pc = "standard_directories"
    /\ pc' = "detect"
    /\ lib_dirs' = <<>>
    /\ inc_dirs' = <<>>
    /\ ret' = "standard_directories"
    /\ UNCHANGED <<request, sched, idx, mixin, dependency, libnames, li, link_arg, environment,
                   tried, error, result>>

\* __init__: "Then look in standard directories by attempting to link"
standard_directories ==
    /\ pc = "standard_directories"
    /\ IF ~is_found
       THEN /\ pc' = "detect"
            /\ lib_dirs' = <<>>
            /\ inc_dirs' = <<>>
            /\ ret' = "standard_directories"
       ELSE /\ pc' = "version"
            /\ UNCHANGED <<lib_dirs, inc_dirs, ret>>
    /\ UNCHANGED <<request, sched, idx, mixin, dependency, libnames, li, link_arg, environment,
                   tried, error, result>>

\* detect assigns libnames only under these two values of self.interface
LibNamesBound(iface) == iface = s_lp64 \/ iface = s_ilp64

\* the candidate names with the unsuffixed library ahead of openblas_ilp64
LibNames_unsuffixed_second(iface) ==
    IF iface = s_lp64 THEN <<s_openblas>>
    ELSE <<s_openblas64, s_openblas, s_openblas_ilp64>>

\* the candidate library names of detect, by self.interface
LibNames(iface) ==
    IF iface = s_lp64 THEN <<s_openblas>>
    ELSE <<s_openblas64, s_openblas_ilp64, s_openblas>>

\* detect(lib_dirs, inc_dirs) up to its loop; the loop reads libnames,
\* which is unbound when neither branch assigned it
detect ==
    /\ pc = "detect"
    /\ IF ~LibNamesBound(getattr("interface", interface))
       THEN /\ Raise("UnboundLocalError: libnames")
            /\ UNCHANGED <<libnames, li>>
       ELSE /\ libnames' = LibNames(getattr("interface", interface))
            /\ li' = 1
            /\ pc' = "detect_loop"
            /\ UNCHANGED <<error, result>>
    /\ UNCHANGED <<request, sched, idx, mixin, dependency, lib_dirs, inc_dirs, ret, link_arg,
                   environment, tried>>

\* where detect returns to
AfterDetect(caller) ==
    IF caller = "detect_openblas_machine_file" THEN "standard_directories" ELSE "version"

\* the locator's flags stored as they are, whatever the directories
FoundLinkArgs_raw(dirs, libname, located) == located

\* the link arguments detect stores for a candidate that passed
FoundLinkArgs(dirs, libname, located) ==
    IF dirs # <<>>
    THEN <<s_dashL \o parent(located[1]), s_dashl \o libname>>
    ELSE located

\* the -I arguments of the header check and of the compile flags
incdir_args == MapSeq(LAMBDA d : s_dashI \o d, inc_dirs)

\* the loop goes on to the next name, or detect returns after the last
NextCandidate ==
    IF li < Len(libnames)
    THEN li' = li + 1 /\ pc' = "detect_loop"
    ELSE UNCHANGED li /\ pc' = AfterDetect(ret)

\* an iteration of detect's loop over libnames: find_library
detect_loop ==
    /\ pc = "detect_loop"
    /\ LET qlib == <<libnames[li], lib_dirs>>
       IN  \E a \in FindLibraryAnswers(libnames[li], lib_dirs) :
             /\ Reply("find_library", qlib, a)
             /\ link_arg' = a
             /\ calls' = Append(calls, Call("find_library", qlib, a))
             /\ oracle' = Learn(oracle, "find_library", qlib, a)
    /\ pc' = "has_header"
    /\ UNCHANGED <<request, sched, idx, mixin, dependency, lib_dirs, inc_dirs, libnames, li,
                   ret, tried, error, result>>

\* the iteration after find_library: has_header, and the test
\* "if link_arg and found_header"
detect_has_header ==
    /\ pc = "has_header"
    /\ LET qhdr == <<"openblas_config.h", incdir_args>>
       IN  \E found_header \in BOOLEAN :
             /\ Reply("has_header", qhdr, found_header)
             /\ calls' = Append(calls, Call("has_header", qhdr, found_header))
             /\ oracle' = Learn(oracle, "has_header", qhdr, found_header)
             /\ IF link_arg # <<>> /\ found_header
                THEN pc' = "check_symbols" /\ UNCHANGED li
                ELSE NextCandidate
    /\ UNCHANGED <<request, sched, idx, mixin, dependency, lib_dirs, inc_dirs, libnames, ret,
                   link_arg, tried, error, result>>

\* the iteration after has_header: check_symbols(link_arg), and what detect
\* stores for a candidate that passed
detect_check_symbols ==
    /\ pc = "check_symbols"
    /\ LET qlnk == check_symbols(getattr("interface", interface),
                                 getattr("needs_cblas", needs_cblas),
                                 getattr("needs_lapack", needs_lapack),
                                 getattr("needs_lapacke", needs_lapacke), link_arg)
       IN  \E ok \in BOOLEAN :
             /\ Reply("links", qlnk, ok)
             /\ calls' = Append(calls, Call("links", qlnk, ok))
             /\ oracle' = Learn(oracle, "links", qlnk, ok)
             /\ IF ok
                THEN /\ is_found' = TRUE
                     /\ link_args' = link_args
                                       \o FoundLinkArgs(lib_dirs, libnames[li], link_arg)
                     /\ compile_args' = compile_args \o incdir_args
                     /\ pc' = AfterDetect(ret)
                     /\ UNCHANGED li
                ELSE /\ UNCHANGED <<is_found, link_args, compile_args>>
                     /\ NextCandidate
    /\ UNCHANGED <<request, sched, idx, mixin, version, lib_dirs, inc_dirs, libnames, ret,
                   link_arg, tried, error, result>>

\* __init__: if self.is_found: self.version = self.detect_openblas_version()
openblas_version ==
    /\ pc = "version"
    /\ IF is_found
       THEN \E v \in DefineValues :
              /\ Reply("get_define", "OPENBLAS_VERSION", v)
              /\ version' = detect_openblas_version(v)
              /\ calls' = Append(calls, Call("get_define", "OPENBLAS_VERSION", v))
              /\ oracle' = Learn(oracle, "get_define", "OPENBLAS_VERSION", v)
       ELSE UNCHANGED <<version, environment>>
    /\ pc' = "constructed"
    /\ UNCHANGED <<request, sched, idx, mixin, is_found, link_args, compile_args, frame,
                   tried, error, result>>

---------------------------------------------------------------------------
(* The pkg-config and CMake dependencies *)

\* the base class constructor has looked the package up: its answer a
\* becomes the state of the dependency object
LookedUp(a) ==
    /\ is_found' = a.found
    /\ link_args' = a.link_args
    /\ compile_args' = a.compile_args
    /\ version' = a.version

\* a constructor up to its symbol check: the lookup of the base class
\* constructor, answered a, then parse_modules
Lookup(f, name, a, after) ==
    LET p == parse_modules(modules)
    IN  /\ Reply(f, name, a)
        /\ LookedUp(a)
        /\ ParseInto(p)
        /\ calls' = Append(calls, Call(f, name, a))
        /\ oracle' = Learn(oracle, f, name, a)
        /\ IF p.exc # "none"
           THEN Raise(p.exc)
           ELSE pc' = after /\ UNCHANGED <<error, result>>

OpenBLASPkgConfigDependency_init ==
    /\ pc = "OpenBLASPkgConfigDependency"
    /\ \E a \in PkgConfigAnswers(s_openblas) :
          Lookup("pkgconfig", s_openblas, a, "check_symbols_gate")
    /\ UNCHANGED <<request, sched, idx, frame, tried>>

OpenBLASCMakeDependency_init ==
    /\ pc = "OpenBLASCMakeDependency"
    /\ \E a \in CMakeAnswers(s_OpenBLAS) :
          Lookup("cmake", s_OpenBLAS, a, "check_symbols_gate")
    /\ UNCHANGED <<request, sched, idx, frame, tried>>

\* the end of both constructors:
\* if not self.check_symbols(self.link_args): self.is_found = False
check_symbols_gate ==
    /\ pc = "check_symbols_gate"
    /\ LET qlnk == check_symbols(getattr("interface", interface),
                                 getattr("needs_cblas", needs_cblas),
                                 getattr("needs_lapack", needs_lapack),
                                 getattr("needs_lapacke", needs_lapacke), link_args)
       IN  \E ok \in BOOLEAN :
             /\ Reply("links", qlnk, ok)
             /\ calls' = Append(calls, Call("links", qlnk, ok))
             /\ oracle' = Learn(oracle, "links", qlnk, ok)
             /\ is_found' = IF ~ok THEN FALSE ELSE is_found
    /\ pc' = "constructed"
    /\ UNCHANGED <<request, sched, idx, mixin, link_args, compile_args, version, frame, tried,
                   error, result>>

\* NetlibPkgConfigDependency.__init__: the lookup of 'blas', then parse_modules
NetlibPkgConfigDependency_init ==
    /\ pc = "NetlibPkgConfigDependency"
    /\ \E a \in PkgConfigAnswers(s_blas) : Lookup("pkgconfig", s_blas, a, "constructed")
    /\ UNCHANGED <<request, sched, idx, frame, tried>>

---------------------------------------------------------------------------
(* AccelerateSystemDependency *)

\* check_macOS_recent_enough: False unless os.name == 'darwin'; under it
\* the name subprocess is read, which the module never imports
check_macOS_recent_enough(os_name) ==
    IF os_name = "darwin"
    THEN [exc |-> "NameError", value |-> FALSE]
    ELSE [exc |-> "none", value |-> FALSE]

\* __init__ with check_macOS_recent_enough and detect
AccelerateSystemDependency_init ==
    /\ pc = "AccelerateSystemDependency"
    /\ version' = NoneVal
    /\ link_args' = <<>>
    /\ LET p == parse_modules(modules)
           recent == check_macOS_recent_enough(host.os_name)
           framework_arg == IF host.accelerate THEN <<s_framework, s_Accelerate>> ELSE <<>>
           found_header == host.accelerate
       IN  /\ ParseInto(p)
           /\ IF p.exc # "none" \/ recent.exc # "none"
              THEN /\ Raise(IF p.exc # "none" THEN p.exc ELSE recent.exc)
                   /\ is_found' = FALSE
                   /\ compile_args' = <<>>
                   /\ UNCHANGED calls
              ELSE /\ pc' = "constructed"
                   /\ UNCHANGED <<error, result>>
                   /\ IF ~recent.value
                      THEN /\ is_found' = FALSE
                           /\ compile_args' = <<>>
                           /\ UNCHANGED calls
                      ELSE /\ calls' = calls \o <<Call("find_framework", s_Accelerate, framework_arg),
                                                  Call("has_header", <<"<Accelerate/Accelerate.h>", <<>>>>,
                                                       found_header)>>
                           /\ is_found' = (framework_arg # <<>> /\ found_header)
                           /\ compile_args' =
                                 IF framework_arg # <<>> /\ found_header
                                 THEN <<s_new_lapack>>
                                      \o (IF p.interface = s_ilp64 THEN <<s_lapack_ilp64>> ELSE <<>>)
                                 ELSE <<>>
    /\ UNCHANGED <<request, sched, idx, frame, oracle, tried>>

---------------------------------------------------------------------------
(* The strategy chain: the candidates of the family's factory are          *)
(* constructed in the order of its methods, and the first found one is     *)
(* returned                                                                *)

find_external_dependency ==
    /\ pc \in {"lookup", "constructed"}
    /\ tried' = IF pc = "constructed"
                THEN Append(tried, Report(registry[family].methods[idx]))
                ELSE tried
    /\ LET factory == registry[family]
       IN  IF pc = "constructed" /\ is_found
           THEN /\ result' = [status |-> "returned", found |-> TRUE,
                              method |-> factory.methods[idx],
                              compile_args |-> compile_args, link_args |-> link_args,
                              version |-> version]
                /\ pc' = "done"
                /\ UNCHANGED idx
           ELSE IF idx < Len(factory.methods)
           THEN /\ idx' = idx + 1
                /\ pc' = factory[factory.methods[idx + 1]]
                /\ UNCHANGED result
           ELSE /\ result' = [NoResult EXCEPT !.status = "returned"]
                /\ pc' = "done"
                /\ UNCHANGED idx
    /\ UNCHANGED <<request, sched, mixin, dependency, frame, environment, error>>

---------------------------------------------------------------------------

Next ==
    \/ find_external_dependency
    \/ OpenBLASSystemDependency_init
    \/ detect_openblas_machine_file
    \/ standard_directories
    \/ detect
    \/ detect_loop
    \/ detect_has_header
    \/ detect_check_symbols
    \/ openblas_version
    \/ OpenBLASPkgConfigDependency_init
    \/ OpenBLASCMakeDependency_init
    \/ check_symbols_gate
    \/ NetlibPkgConfigDependency_init
    \/ AccelerateSystemDependency_init

Spec == Init /\ [][Next]_vars

---------------------------------------------------------------------------
(* Two resolutions in one process.  The caller starts resolution 1 and    *)
(* resolution 2, for different families or for different machines, and may *)
(* switch from one to the other at any step.  The dict packages, the       *)
(* classes and the environment (the compiler, pkg-config and CMake of each *)
(* machine, with the answers they have given) are common to both; a        *)
(* resolution's request, its position, its objects' own attributes and the *)
(* locals of its calls are its own.  When both are done, resolution 1's    *)
(* request is resolved once more, alone, in the same process.              *)

\* what a resolution owns: its request, its position in the chain, the
\* attributes set on the object under construction (self.*), the locals of
\* detect and its histories
instance ==
    [family |-> family, modules |-> modules, props |-> props,
     for_machine |-> for_machine, host |-> host,
     pc |-> pc, idx |-> idx, interface |-> interface, needs_cblas |-> needs_cblas,
     needs_lapack |-> needs_lapack, needs_lapacke |-> needs_lapacke,
     is_found |-> is_found, link_args |-> link_args, compile_args |-> compile_args,
     version |-> version, lib_dirs |-> lib_dirs, inc_dirs |-> inc_dirs,
     libnames |-> libnames, li |-> li, ret |-> ret, link_arg |-> link_arg, calls |-> calls,
     tried |-> tried,
     error |-> error, result |-> result]

\* resolution r runs
Resume(r) ==
    /\ family' = r.family
    /\ modules' = r.modules
    /\ props' = r.props
    /\ for_machine' = r.for_machine
    /\ host' = r.host
    /\ pc' = r.pc
    /\ idx' = r.idx
    /\ interface' = r.interface
    /\ needs_cblas' = r.needs_cblas
    /\ needs_lapack' = r.needs_lapack
    /\ needs_lapacke' = r.needs_lapacke
    /\ is_found' = r.is_found
    /\ link_args' = r.link_args
    /\ compile_args' = r.compile_args
    /\ version' = r.version
    /\ lib_dirs' = r.lib_dirs
    /\ inc_dirs' = r.inc_dirs
    /\ libnames' = r.libnames
    /\ li' = r.li
    /\ ret' = r.ret
    /\ link_arg' = r.link_arg
    /\ calls' = r.calls
    /\ tried' = r.tried
    /\ error' = r.error
    /\ result' = r.result

\* resolution r is the one about to run
Runs(r) ==
    /\ family = r.family
    /\ modules = r.modules
    /\ props = r.props
    /\ for_machine = r.for_machine
    /\ host = r.host
    /\ pc = r.pc
    /\ idx = r.idx
    /\ interface = r.interface
    /\ needs_cblas = r.needs_cblas
    /\ needs_lapack = r.needs_lapack
    /\ needs_lapacke = r.needs_lapacke
    /\ is_found = r.is_found
    /\ link_args = r.link_args
    /\ compile_args = r.compile_args
    /\ version = r.version
    /\ lib_dirs = r.lib_dirs
    /\ inc_dirs = r.inc_dirs
    /\ libnames = r.libnames
    /\ li = r.li
    /\ ret = r.ret
    /\ link_arg = r.link_arg
    /\ calls = r.calls
    /\ tried = r.tried
    /\ error = r.error
    /\ result = r.result

\* the requests of the two resolutions
Modules14 == {<<>>, <<tok_lp64, s_cblas>>}
Props14 ==
    {p \in PropMappings :
        \/ DOMAIN p = {}
        \/ /\ DOMAIN p = {k_includedir, k_librarydir}
           /\ p[k_includedir] = s_abs_inc
           /\ p[k_librarydir] = s_abs_lib}
Hosts14 == {h \in Hosts : h.platform = "darwin" /\ h.sdk = <<14, 0>>}
Machines == {"host", "build"}

\* resolution 1 is for the host machine; resolution 2 is for another family
\* or for the build machine, whose machine file has its own properties
Init14 ==
    \E f1 \in Families, f2 \in Families, fm2 \in Machines, m1 \in Modules14,
       p1 \in Props14, p2 \in Props14, h \in Hosts14 :
        /\ f1 # f2 \/ fm2 # "host"
        /\ fm2 = "host" => p2 = p1
        /\ LET one == Started(f1, m1, p1, "host", h)
               two == Started(f2, <<tok_lp64>>, p2, fm2, h)
           IN  /\ Runs(one)
               /\ sched = [cur |-> 1, live |-> {1, 2}, switches |-> 0, replay |-> FALSE,
                           mid |-> FALSE, other |-> two, start |-> one, second |-> two,
                           first |-> NoOutcome]
        /\ registry = Imported
        /\ class_attrs = NoClassAttrs
        /\ oracle = [find_library |-> {}, has_header |-> {}, links |-> {},
                     get_define |-> {}, pkgconfig |-> {}, cmake |-> {}]

\* the caller leaves the running resolution where it is and runs the other
yield ==
    /\ sched.live = {1, 2}
    /\ pc # "done"
    /\ sched.switches < MaxSwitches
    /\ Resume(sched.other)
    /\ sched' = [sched EXCEPT !.cur = 3 - @, !.other = instance, !.switches = @ + 1,
                              !.mid = @ \/ (sched.cur = 1 /\ calls # <<>>)]
    /\ UNCHANGED <<registry, class_attrs, oracle>>

\* the running resolution has returned or raised: the other one runs, and
\* after both the request of resolution 1 is resolved again
finish ==
    /\ pc = "done"
    /\ sched.cur \in sched.live
    /\ LET live == sched.live \ {sched.cur}
           first == IF sched.cur = 1
                    THEN [result |-> result, error |-> error, tried |-> tried]
                    ELSE sched.first
       IN  IF live # {}
           THEN /\ Resume(sched.other)
                /\ sched' = [sched EXCEPT !.cur = 3 - @, !.other = instance,
                                          !.live = live, !.first = first]
           ELSE /\ Resume(sched.start)
                /\ sched' = [sched EXCEPT !.cur = 1, !.other = instance, !.live = live,
                                          !.first = first, !.replay = TRUE]
    /\ UNCHANGED <<registry, class_attrs, oracle>>

Next14 ==
    \/ find_external_dependency
    \/ OpenBLASSystemDependency_init
    \/ detect_openblas_machine_file
    \/ standard_directories
    \/ detect
    \/ detect_loop
    \/ detect_has_header
    \/ detect_check_symbols
    \/ openblas_version
    \/ OpenBLASPkgConfigDependency_init
    \/ OpenBLASCMakeDependency_init
    \/ check_symbols_gate
    \/ NetlibPkgConfigDependency_init
    \/ AccelerateSystemDependency_init
    \/ yield
    \/ finish

Spec14 == Init14 /\ [][Next14]_vars

---------------------------------------------------------------------------
(* Properties *)

\* the indices of the history of calls that hold a call of fn
CallsOf(fn) == {k \in 1..Len(calls) : calls[k].fn = fn}

\* C1: for the openblas family the strategies are tried in the order
\* system, pkg-config, CMake; every strategy tried before the last one
\* reported found = false; a found result is the report of the last strategy
\* tried; and when the system strategy reports found = true its flags are
\* returned and neither the pkg-config nor the CMake lookup has run.
C1_ChainOrder ==
    family = "openblas" =>
        LET order == <<"system", "pkgconfig", "cmake">>
        IN  /\ Len(tried) <= Len(order)
            /\ \A i \in 1..Len(tried) : tried[i].method = order[i]
            /\ \A i \in 1..(Len(tried) - 1) : ~tried[i].found
            /\ (CallsOf("pkgconfig") # {} => Len(tried) >= 1 /\ ~tried[1].found)
            /\ (CallsOf("cmake") # {} => Len(tried) >= 2 /\ ~tried[2].found)
            /\ (pc = "done" /\ result.status = "returned" =>
                  /\ result.found = (tried # <<>> /\ tried[Len(tried)].found)
                  /\ (result.found =>
                        /\ result.method = tried[Len(tried)].method
                        /\ result.link_args = tried[Len(tried)].link_args
                        /\ result.compile_args = tried[Len(tried)].compile_args)
                  /\ (~result.found => Len(tried) = Len(order)))
            /\ (pc = "done" /\ tried # <<>> /\ tried[1].found =>
                  /\ result.status = "returned" /\ result.found
                  /\ result.method = "system"
                  /\ result.link_args = tried[1].link_args
                  /\ CallsOf("pkgconfig") = {} /\ CallsOf("cmake") = {})

\* C1 witness: the system probe succeeded through a verified library and
\* its flags were returned
C1_Witness ==
    /\ pc = "done" /\ family = "openblas"
    /\ result.found /\ result.method = "system"
    /\ result.link_args = <<s_dashl \o s_openblas>>
    /\ \E k \in CallsOf("links") : calls[k].r

\* the call at k located a library, the marker header was found right after
\* it, and the symbol check of the located library's flags succeeded
Verified(k) ==
    /\ calls[k].fn = "find_library" /\ calls[k].r # <<>>
    /\ k + 2 <= Len(calls)
    /\ calls[k + 1].fn = "has_header" /\ calls[k + 1].r
    /\ calls[k + 2].fn = "links" /\ calls[k + 2].r
    /\ calls[k + 2].q.extra_args = calls[k].r

\* C2: whenever the OpenBLAS system probe reports found = true, a candidate
\* library was located, openblas_config.h was found and the symbol check of
\* that candidate's link flags returned true.
C2_SystemFoundIsVerified ==
    \A i \in 1..Len(tried) :
        tried[i].method = "system" /\ tried[i].found =>
            \E k \in CallsOf("find_library") : Verified(k)

\* the request vocabulary and its interface tokens
Vocabulary == {tok_lp64, tok_ilp64, s_cblas, s_lapack, s_lapacke}
InterfaceCount == Cardinality({i \in 1..Len(modules) : modules[i] \in {tok_lp64, tok_ilp64}})
RecognizedOnly == \A i \in 1..Len(modules) : modules[i] \in Vocabulary

\* C3: a request of recognized tokens with no interface token is resolved
\* as LP64: once parsed, the symbol suffix and the candidate library names
\* are those of the explicit LP64 request, and the system probe runs on
\* them as it does for LP64 (it does not fault on the candidate names).
C3_DefaultIsLP64 ==
    RecognizedOnly /\ InterfaceCount = 0 /\ interface # NoneVal =>
        /\ Suffix(interface) = <<>>
        /\ LibNamesBound(interface)
        /\ LibNames(interface) = <<s_openblas>>
        /\ error # "UnboundLocalError: libnames"

ParseErrors == {"MesonException: Unknown modules argument",
                "MesonException: Only one interface must be specified"}

\* C4: the resolution ends with parse_modules' configuration error, and
\* returns nothing, exactly when the modules list holds a token outside the
\* vocabulary or more than one interface token; a token outside the
\* vocabulary is reported as unknown even when it starts like an interface
\* token; for the openblas family no lookup runs before that error; every
\* other list is parsed into the interface and the three capabilities.
C4_ParseModules ==
    LET bad == ~RecognizedOnly \/ InterfaceCount > 1
    IN  /\ (pc = "done" =>
              /\ (bad <=> error \in ParseErrors)
              /\ (bad => result.status = "raised" /\ tried = <<>>)
              /\ (~RecognizedOnly => error = "MesonException: Unknown modules argument"))
        /\ (bad /\ family = "openblas" => calls = <<>>)
        /\ (~bad /\ interface # NoneVal =>
              /\ needs_cblas = (\E i \in 1..Len(modules) : modules[i] = s_cblas)
              /\ needs_lapack = (\E i \in 1..Len(modules) : modules[i] = s_lapack)
              /\ needs_lapacke = (\E i \in 1..Len(modules) : modules[i] = s_lapacke)
              /\ (InterfaceCount = 1 =>
                    interface = IF \E i \in 1..Len(modules) : modules[i] = tok_lp64
                                THEN s_lp64 ELSE s_ilp64))

\* C4 witness: a list with two interface tokens ended the resolution with
\* the configuration error
C4_Witness ==
    /\ pc = "done" /\ RecognizedOnly /\ InterfaceCount = 2
    /\ error = "MesonException: Only one interface must be specified"
    /\ result.status = "raised"

\* the machine file gives every key it holds a string
PathValues == \A k \in DOMAIN props : isinstance_str(props[k])

\* an override key is set when it is present with a non-empty value
IsSet(k) == k \in DOMAIN props /\ props[k] # <<>>
Relative(k) == props[k][1] # "/"
OneOverrideOnly == IsSet(k_includedir) # IsSet(k_librarydir)
RelativeOverride ==
    /\ IsSet(k_includedir) /\ IsSet(k_librarydir)
    /\ (Relative(k_includedir) \/ Relative(k_librarydir))

\* C5: for the openblas family and a machine file whose values are strings,
\* when exactly one override is set, or both
\* are set and one of them is relative, no lookup or compiler check ever
\* runs, and the resolution ends by raising a configuration error (the
\* "both have to be set" or the "must be absolute" one when the modules
\* parse) and returns no result.
C5_OverrideErrors ==
    family = "openblas" /\ PathValues /\ (OneOverrideOnly \/ RelativeOverride) =>
        /\ calls = <<>> /\ tried = <<>>
        /\ (pc = "done" =>
              /\ result.status = "raised"
              /\ error \in ParseErrors \cup
                    {"MesonException: both includedir and librarydir have to be set",
                     "MesonException: paths in machine file must be absolute"}
              /\ (error \notin ParseErrors /\ OneOverrideOnly =>
                    error = "MesonException: both includedir and librarydir have to be set")
              /\ (error \notin ParseErrors /\ RelativeOverride =>
                    error = "MesonException: paths in machine file must be absolute"))

\* C5 witness: both overrides set, the library directory relative, and the
\* resolution ended with the "must be absolute" error
C5_Witness ==
    /\ pc = "done" /\ family = "openblas"
    /\ IsSet(k_includedir) /\ IsSet(k_librarydir)
    /\ ~Relative(k_includedir) /\ Relative(k_librarydir)
    /\ error = "MesonException: paths in machine file must be absolute"
    /\ result.status = "raised"

BothOverridesAbsolute ==
    /\ PathValues
    /\ IsSet(k_includedir) /\ IsSet(k_librarydir)
    /\ ~Relative(k_includedir) /\ ~Relative(k_librarydir)

\* C6: for the openblas family, when both overrides are set and absolute,
\* every library search is a search of the override library directory and
\* every header check uses the override include directory (the default
\* directories are never searched), and no pkg-config or CMake strategy is
\* started, whatever the check against the override paths finds.
C6_OverrideReplacesDiscovery ==
    family = "openblas" /\ BothOverridesAbsolute =>
        /\ \A k \in CallsOf("find_library") : calls[k].q[2] = <<props[k_librarydir]>>
        /\ \A k \in CallsOf("has_header") :
              calls[k].q[2] = <<s_dashI \o props[k_includedir]>>
        /\ CallsOf("pkgconfig") = {} /\ CallsOf("cmake") = {}
        /\ \A i \in 1..Len(tried) : tried[i].method = "system"
        /\ pc \notin {"OpenBLASPkgConfigDependency", "OpenBLASCMakeDependency"}
        /\ (pc = "done" /\ error = "none" => Len(tried) = 1)

\* C6 witness: the check against the override paths located no library, and
\* the resolution ended without any other search
C6_Witness ==
    /\ pc = "done" /\ family = "openblas" /\ BothOverridesAbsolute
    /\ error = "none"
    /\ CallsOf("find_library") # {}
    /\ \A k \in CallsOf("find_library") : calls[k].r = <<>>

\* the positions of the find_library calls, in order
LibraryCalls ==
    SelectSeq([i \in 1..Len(calls) |-> i], LAMBDA i : calls[i].fn = "find_library")

\* C7: the system probe asks for the candidate names openblas64,
\* openblas_ilp64, openblas in that order for ILP64 and for openblas alone
\* for LP64; it goes on to the next name only after a candidate that was
\* not located, lacked the header or failed the symbol check; when detect
\* has returned, either the last candidate asked for passed all three and
\* the link flags end with that candidate's flag, or every name was tried
\* and no link flags were stored.
C7_CandidateOrder ==
    family = "openblas" /\ (interface = s_lp64 \/ interface = s_ilp64) =>
        LET expected == IF interface = s_ilp64
                        THEN <<s_openblas64, s_openblas_ilp64, s_openblas>>
                        ELSE <<s_openblas>>
            at == LibraryCalls
            n == Len(at)
        IN  /\ n <= Len(expected)
            /\ \A i \in 1..n : calls[at[i]].q[1] = expected[i]
            /\ \A i \in 1..(n - 1) : ~Verified(at[i])
            /\ (pc = "version" =>
                  /\ n >= 1
                  /\ IF Verified(at[n])
                     THEN /\ is_found
                          /\ link_args # <<>>
                          /\ link_args[Len(link_args)] =
                                IF lib_dirs = <<>> THEN calls[at[n]].r[1]
                                ELSE s_dashl \o expected[n]
                     ELSE n = Len(expected) /\ link_args = <<>>)

\* C7 witness: an ILP64 request whose first candidate was located with its
\* header and failed the symbol check, and whose second candidate passed
C7_Witness ==
    /\ pc = "version" /\ interface = s_ilp64
    /\ Len(LibraryCalls) = 2
    /\ calls[1].r # <<>> /\ calls[2].r /\ calls[3].fn = "links" /\ ~calls[3].r
    /\ Verified(LibraryCalls[2])
    /\ link_args = <<s_dashl \o s_openblas_ilp64>>

\* the name of a symbol with the suffix of the requested variant
Suffixed(symbol) ==
    symbol \o (IF \E i \in 1..Len(modules) : modules[i] = tok_ilp64 THEN <<"6","4","_">> ELSE <<>>)

\* the flags of the lookup that a symbol check at position k follows
CheckedFlags(k) ==
    IF calls[k - 1].fn = "has_header" THEN calls[k - 2].r ELSE calls[k - 1].r.link_args

\* C8: every program handed to the compiler's link check calls dgemm_,
\* then cblas_dgemm if cblas was requested, zungqr_ if lapack was,
\* LAPACKE_zungqr if lapacke was, in that order, each with the suffix "" for
\* LP64 and "64_" for ILP64, and the only extra arguments are the link flags
\* of the lookup under verification; a pkg-config or CMake candidate whose
\* check did not link is not found.
C8_SymbolList ==
    /\ \A k \in CallsOf("links") :
          /\ calls[k].q.code =
                <<Suffixed(s_dgemm)>>
                \o (IF \E i \in 1..Len(modules) : modules[i] = s_cblas
                    THEN <<Suffixed(s_cblas_dgemm)>> ELSE <<>>)
                \o (IF \E i \in 1..Len(modules) : modules[i] = s_lapack
                    THEN <<Suffixed(s_zungqr)>> ELSE <<>>)
                \o (IF \E i \in 1..Len(modules) : modules[i] = s_lapacke
                    THEN <<Suffixed(s_LAPACKE_zungqr)>> ELSE <<>>)
          /\ calls[k].q.extra_args = CheckedFlags(k)
          /\ (modules = <<tok_lp64>> => calls[k].q.code = << <<"d","g","e","m","m","_">> >>)
          /\ (modules = <<tok_ilp64, s_cblas>> =>
                calls[k].q.code = << <<"d","g","e","m","m","_","6","4","_">>,
                                     <<"c","b","l","a","s","_","d","g","e","m","m","6","4","_">> >>)
    /\ (pc = "constructed" /\ calls # <<>> /\ calls[Len(calls)].fn = "links"
        /\ ~calls[Len(calls)].r => ~is_found)

\* C8 witness: an ILP64 request with cblas and lapacke whose program linked
C8_Witness ==
    \E k \in CallsOf("links") :
        /\ calls[k].r
        /\ calls[k].q.code = <<s_dgemm \o s_64, s_cblas_dgemm \o s_64, s_LAPACKE_zungqr \o s_64>>

\* C9: a pkg-config or CMake strategy of any family reports found = true
\* only if the flags of its lookup passed the symbol check.
C9_LookupFoundIsVerified ==
    \A i \in 1..Len(tried) :
        tried[i].method \in {"pkgconfig", "cmake"} /\ tried[i].found =>
            \E k \in CallsOf("links") :
                /\ calls[k].r
                /\ calls[k].q.extra_args = tried[i].link_args
                /\ calls[k - 1].fn = tried[i].method

\* C10: a request whose modules parse and whose overrides are absent or
\* both absolute ends without raising: every strategy reports found = true
\* or found = false, and the result is found = false exactly when every
\* strategy of the chain reported found = false.
C10_NoRaise ==
    /\ pc = "done"
    /\ RecognizedOnly /\ InterfaceCount <= 1
    /\ (DOMAIN props = {} \/ BothOverridesAbsolute)
    => /\ error = "none"
       /\ result.status = "returned"
       /\ (~result.found <=>
             /\ Len(tried) = Len(packages(family).methods)
             /\ \A i \in 1..Len(tried) : ~tried[i].found)

\* C11: the version stored by a found system probe is always a string: the
\* first dotted run of digit groups of the OPENBLAS_VERSION text ("0.3.21"
\* for "OpenBLAS 0.3.21  "), and a sentinel string, never an absent value,
\* when the text holds no such run; the probe stays found.
C11_VersionIsAString ==
    pc = "constructed" /\ family = "openblas" /\ idx = 1 /\ is_found =>
        /\ calls # <<>> /\ calls[Len(calls)].fn = "get_define"
        /\ (calls[Len(calls)].r = def_release => version = <<"0",".","3",".","2","1">>)
        /\ version # NoneVal

\* C13: every strategy that reports found = false reports empty compile
\* flags, empty link flags and no version.
C13_NotFoundIsEmpty ==
    \A i \in 1..Len(tried) :
        ~tried[i].found =>
            /\ tried[i].compile_args = <<>>
            /\ tried[i].link_args = <<>>
            /\ tried[i].version = NoneVal

\* C15: when detect has returned with a candidate that passed, the link
\* flags are exactly -L<directory of the located library file>, -l<name of
\* that candidate> if library directories were supplied and exactly the
\* locator's flags otherwise, and the compile flags are exactly -I<dir> for
\* each supplied include directory in order (none when none was supplied);
\* the candidates that failed before it left no flags.
C15_FoundFlags ==
    pc = "version" /\ LibraryCalls # <<>> /\ Verified(LibraryCalls[Len(LibraryCalls)]) =>
        LET k == LibraryCalls[Len(LibraryCalls)]
            name == calls[k].q[1]
            located == calls[k].r
        IN  /\ IF lib_dirs # <<>>
               THEN \E d \in {lib_dirs[1], <<"/","u","s","r","/","l","i","b">>} :
                       /\ located = <<d \o <<"/","l","i","b">> \o name \o <<".","s","o">> >>
                       /\ link_args = << <<"-","L">> \o d, <<"-","l">> \o name >>
               ELSE link_args = located
            /\ Len(compile_args) = Len(inc_dirs)
            /\ \A i \in 1..Len(inc_dirs) : compile_args[i] = <<"-","I">> \o inc_dirs[i]
            /\ (lib_dirs = <<>> => compile_args = <<>>)
            /\ (lib_dirs # <<>> => inc_dirs = <<props[k_includedir]>>)

\* C15 witness: an ILP64 request with override directories whose first
\* candidate failed the symbol check and whose second candidate, located in
\* the override directory, passed
C15_Witness ==
    /\ pc = "version" /\ interface = s_ilp64 /\ lib_dirs = <<s_abs_lib>>
    /\ Len(LibraryCalls) = 2
    /\ calls[1].r # <<>> /\ calls[2].r /\ calls[3].fn = "links" /\ ~calls[3].r
    /\ Verified(LibraryCalls[2])
    /\ link_args = <<s_dashL \o s_abs_lib, s_dashl \o s_openblas_ilp64>>
    /\ compile_args = <<s_dashI \o s_abs_inc>>

\* C16: for every machine-file mapping the override check never ends in
\* the internal-bug branch of detect_openblas_machine_file nor in a failed
\* assertion; it ends with no override (no key present), with the override
\* applied, or with one of the two configuration errors.
C16_BugBranchUnreachable ==
    /\ error # "MesonBugException: should not be possible to reach this else clause"
    /\ error # "AssertionError"
    /\ (pc = "standard_directories" /\ calls = <<>> => DOMAIN props = {})

\* the host is a macOS of version 13.3 or later
RecentMacOS ==
    /\ host.platform = "darwin"
    /\ (host.sdk[1] > 13 \/ (host.sdk[1] = 13 /\ host.sdk[2] >= 3))

\* C12: the framework probe reports found = true exactly when the host is
\* macOS 13.3 or later and the Accelerate framework and its header are
\* located; on any other host it reports found = false without a compiler
\* check; when found its compile flags are -DACCELERATE_NEW_LAPACK alone for
\* LP64 and followed by -DACCELERATE_LAPACK_ILP64 for ILP64; it never runs
\* the symbol check.
C12_FrameworkProbe ==
    family = "accelerate" =>
        /\ CallsOf("links") = {}
        /\ (~RecentMacOS => calls = <<>>)
        /\ \A i \in 1..Len(tried) :
              /\ tried[i].found = (RecentMacOS /\ host.accelerate)
              /\ (tried[i].found =>
                    tried[i].compile_args =
                       IF \E j \in 1..Len(modules) : modules[j] = tok_ilp64
                       THEN <<s_new_lapack, s_lapack_ilp64>>
                       ELSE <<s_new_lapack>>)

\* C14: a request resolved with a resolution for another family or for
\* another machine before it, after it or interleaved with its own steps
\* gives the outcome (what is returned or raised, and what every candidate
\* reported) that it gives when it is resolved alone in the same process;
\* and no resolution changes the dict packages or sets an attribute on a
\* class.
C14_NoSharedState ==
    /\ registry = [name \in {"openblas", "netlib-blas", "accelerate"} |->
                      IF name = "openblas"
                      THEN [methods |-> <<"system", "pkgconfig", "cmake">>,
                            system |-> "OpenBLASSystemDependency",
                            pkgconfig |-> "OpenBLASPkgConfigDependency",
                            cmake |-> "OpenBLASCMakeDependency"]
                      ELSE IF name = "netlib-blas"
                      THEN [methods |-> <<"pkgconfig">>,
                            pkgconfig |-> "NetlibPkgConfigDependency"]
                      ELSE [methods |-> <<"system">>,
                            system |-> "AccelerateSystemDependency"]]
    /\ DOMAIN class_attrs = {}
    /\ (sched.replay /\ pc = "done" =>
          /\ result = sched.first.result
          /\ error = sched.first.error
          /\ tried = sched.first.tried)

\* C14 witness: an LP64 openblas request for the host machine, found by the
\* system probe in the directories of its machine file, was left in the
\* middle of its probe steps while an openblas resolution for the build
\* machine, whose machine file has no override, asked its own compiler; both
\* ended and the first request has been resolved again alone.
C14_Witness ==
    /\ sched.replay /\ pc = "done"
    /\ sched.mid /\ sched.switches = 2
    /\ family = "openblas" /\ result.found /\ result.method = "system"
    /\ sched.second.family = "openblas" /\ sched.second.for_machine = "build"
    /\ DOMAIN props # {} /\ DOMAIN sched.second.props = {}
    /\ \E e \in oracle.find_library : e[1][1] = "build"
    /\ \E e \in oracle.find_library : e[1][1] = "host"

====
